---- MODULE Spec2Model ----
(***************************************************************************)
(* Model of the simulation engine of project_simulator_streamlit.py:       *)
(* simulate_project (one stochastic pass over the stages) and              *)
(* run_simulation (the batch loop that repeats it and aggregates the       *)
(* per-run summaries and the risk register).                               *)
(*                                                                         *)
(* The process-wide generator np.random is modelled as a stream of raw     *)
(* values 0..RawMax-1 that is decided lazily: a draw beyond the recorded   *)
(* stream picks any raw value and records it, a draw inside the recorded   *)
(* stream (a second invocation under the same seed) replays it.            *)
(* np.random.random() of raw value r is r/RawMax, a float in [0,1);        *)
(* np.random.randint(low, high) returns any integer of low..high-1, and    *)
(* the stream records the integer returned.                                *)
(* Probabilities are counted in slider steps of 0.05 (ProbScale steps = 1).*)
(*                                                                         *)
(* A configuration is a Python dict: here the sequence of its stages in    *)
(* insertion order, each carrying its key (num).                           *)
(***************************************************************************)
EXTENDS Integers, Sequences, FiniteSets, TLC

\* Number of trials a caller may ask for (and -1, 0 below the valid range).
MaxTrials == 2
\* Resolution of the uniform generator: raw draws are 0..RawMax-1.
RawMax == 3
\* 1.0 expressed in slider steps of 0.05.
ProbScale == 20
\* max_value of the baseline and impact inputs, in months.
MaxMonths == 24

VARIABLES
    stages,              \* the configuration passed to run_simulation
    num_simulations,     \* the trial count passed to run_simulation
    pc,                  \* control point
    results,             \* run_simulation: list of {'delay','duration'}
    risk_register,       \* run_simulation: list of fired events
    iter,                \* run_simulation: completed iterations of the for loop
    total_delay,         \* simulate_project local
    cumulative_duration, \* simulate_project local
    risk_log,            \* simulate_project local
    stage_num,           \* simulate_project: current key of the stage loop
    stage_pos,           \* simulate_project: position of the stage loop in the dict
    risk_idx,            \* simulate_project: position in stage['risks']
    stage_duration,      \* simulate_project local
    stream,              \* raw values the generator has produced under this seed
    pos,                 \* number of raw values consumed in this invocation
    run_logs,            \* history: the `risks` value returned by each run
    calls,               \* history: number of simulate_project invocations
    run_start_pos,       \* history: pos when the current run was entered
    invocation,          \* 1 for the first run_simulation call, 2 for a repeat
    same_seed,           \* whether the repeat call was seeded as the first
    prev_results,        \* outputs of the first call, kept for comparison
    prev_register,
    prev_run_logs

vars == <<stages, num_simulations, pc, results, risk_register, iter,
          total_delay, cumulative_duration, risk_log, stage_num, stage_pos,
          risk_idx, stage_duration, stream, pos, run_logs, calls, run_start_pos,
          invocation, same_seed, prev_results, prev_register, prev_run_logs>>

batchVars == <<results, risk_register, iter, run_logs, calls>>
runVars == <<total_delay, cumulative_duration, risk_log, stage_num, stage_pos,
             risk_idx, stage_duration, run_start_pos>>
rngVars == <<stream, pos>>
prevVars == <<invocation, same_seed, prev_results, prev_register, prev_run_logs>>
inputVars == <<stages, num_simulations>>

----------------------------------------------------------------------------
\* Configurations

Severities == {"low", "medium", "high", "critical"}

Risk(t, p, lo, hi, s, m) ==
    [type |-> t, probability |-> p, impact |-> <<lo, hi>>,
     severity |-> s, mitigation |-> m]

\* One item of the stages dict: the key and the fields of its value.
Stage(k, n, b, rs) == [num |-> k, name |-> n, baseline |-> b, risks |-> rs]

\* Stages 1 and 3 of DEFAULT_STAGES (funding at probability 0.2, impact (1,3)).
ConfigPlanning ==
    << Stage(1, "Planning", 6,
             << Risk("funding", 4, 1, 3, "high", "emergency budget allocation") >>),
       Stage(3, "Fund Allocation", 6, << >>) >>

\* Stage 4 of DEFAULT_STAGES: two risks in one stage, both sliders at 0.2.
ConfigProcurement ==
    << Stage(4, "Procurement", 6,
             << Risk("supply_chain", 4, 2, 3, "critical", "multiple suppliers"),
                Risk("logistics", 4, 1, 1, "medium", "local warehouses") >>) >>

\* Stage 5 of DEFAULT_STAGES: labor at probability 0.35, impact (1,4).
ConfigInstallation ==
    << Stage(5, "Installation", 6,
             << Risk("labor", 7, 1, 4, "high", "training programs") >>) >>

\* A risk that always fires with impact (0,0).
ConfigZeroImpact ==
    << Stage(6, "Quality Check", 1,
             << Risk("labor", 20, 0, 0, "low", "training programs") >>) >>

\* Every probability slider at 0.
ConfigNoRisk ==
    << Stage(1, "Planning", 6,
             << Risk("funding", 0, 1, 3, "high", "emergency budget allocation") >>),
       Stage(2, "Surveying", 24,
             << Risk("logistics", 0, 1, 2, "medium", "alternative transport") >>) >>

\* One stage, baseline 6, one risk with probability 1.0 and impact (2,2).
ConfigCertain ==
    << Stage(1, "Installation", 6,
             << Risk("labor", 20, 2, 2, "high", "training programs") >>) >>

\* A caller-built mapping whose keys were inserted as 2, then 1.
ConfigOutOfOrder ==
    << Stage(2, "Surveying", 6,
             << Risk("logistics", 20, 1, 1, "medium", "alternative transport") >>),
       Stage(1, "Planning", 6,
             << Risk("funding", 20, 2, 2, "high", "emergency budget allocation") >>) >>

\* A caller-built mapping whose impact bounds are reversed: impact (3,1).
ConfigReversed ==
    << Stage(1, "Planning", 6,
             << Risk("funding", 10, 3, 1, "high", "emergency budget allocation") >>) >>

Configurations ==
    {ConfigPlanning, ConfigProcurement, ConfigInstallation, ConfigZeroImpact,
     ConfigNoRisk, ConfigCertain, ConfigOutOfOrder, ConfigReversed}

\* stages[k]: the stage stored under key k, and its position in the dict
PositionOf(cfg, k) == CHOOSE i \in 1..Len(cfg) : cfg[i].num = k
StageAt(cfg, k) == cfg[PositionOf(cfg, k)]
Keys(cfg) == { cfg[i].num : i \in 1..Len(cfg) }

\* What the widgets of create_stage_controls let through for one risk:
\* slider 0.0..1.0, min impact 0..24, max impact min..24.
ValidRisk(r) ==
    /\ 0 <= r.probability /\ r.probability <= ProbScale
    /\ 0 <= r.impact[1] /\ r.impact[1] <= MaxMonths
    /\ r.impact[1] <= r.impact[2] /\ r.impact[2] <= MaxMonths

\* ... and for a configuration: baseline 1..24 and every risk as above.
ValidConfiguration(cfg) ==
    \A s \in 1..Len(cfg) :
        /\ 1 <= cfg[s].baseline /\ cfg[s].baseline <= MaxMonths
        /\ \A k \in 1..Len(cfg[s].risks) : ValidRisk(cfg[s].risks[k])

----------------------------------------------------------------------------
\* Helpers

RECURSIVE SumDelays(_)
SumDelays(log) ==
    IF log = << >> THEN 0 ELSE log[1].delay + SumDelays(Tail(log))

RECURSIVE SumTotalDelay(_)
SumTotalDelay(rs) ==
    IF rs = << >> THEN 0 ELSE rs[1].delay + SumTotalDelay(Tail(rs))

RECURSIVE Flatten(_)
Flatten(logs) ==
    IF logs = << >> THEN << >> ELSE logs[1] \o Flatten(Tail(logs))

RECURSIVE SumBaselines(_)
SumBaselines(cfg) ==
    IF cfg = << >> THEN 0 ELSE cfg[1].baseline + SumBaselines(Tail(cfg))

RECURSIVE NumRisks(_)
NumRisks(cfg) ==
    IF cfg = << >> THEN 0 ELSE Len(cfg[1].risks) + NumRisks(Tail(cfg))

EventsOfStage(log, s) == SelectSeq(log, LAMBDA e : e.stage = s)

----------------------------------------------------------------------------
\* The random generator

RawValues == 0..(RawMax - 1)

\* The value the j-th next call of the generator returns, among the values
\* S it can return: replayed where the stream is already decided.
NextValues(j, S) ==
    IF pos + j <= Len(stream) THEN {stream[pos + j]} \cap S ELSE S

\* The stream after k draws. Only a call that a same-seed repeat may follow
\* (the first one) needs its values kept; the last call's are not recorded.
Consumed(d, k) ==
    IF invocation = 2 /\ ~same_seed THEN << >>
    ELSE IF pos + k <= Len(stream) THEN stream
    ELSE SubSeq(stream, 1, pos) \o SubSeq(d, 1, k)

\* np.random.random() < risk['probability'], with random() = r / RawMax
FiresInclusive(r, p) == r * ProbScale <= p * RawMax
Fires(r, p) == r * ProbScale < p * RawMax

\* np.random.randint(low, high): the integers it can return, low..high-1;
\* it raises ValueError when low >= high.
RandIntRaises(low, high) == low >= high
RandInt(low, high) == low..(high - 1)

\* np.random.randint(risk['impact'][0], risk['impact'][1]+1)
SampleDelayWide(risk) == RandInt(risk.impact[1], risk.impact[2] + 2)
SampleDelay(risk) == RandInt(risk.impact[1], risk.impact[2] + 1)

SampleRaises(risk) == RandIntRaises(risk.impact[1], risk.impact[2] + 1)

\* random() is drawn for every risk, randint only inside the if.
DrawCountEager(fired) == 2
DrawCount(fired) == IF fired THEN 2 ELSE 1

----------------------------------------------------------------------------
\* Initial state: a caller about to call run_simulation(stages, num_simulations)

Init ==
    /\ stages \in Configurations
    /\ num_simulations \in (-1)..MaxTrials
    /\ pc = "call"
    /\ results = << >>
    /\ risk_register = << >>
    /\ iter = 0
    /\ total_delay = 0
    /\ cumulative_duration = 0
    /\ risk_log = << >>
    /\ stage_num = 0
    /\ stage_pos = 1
    /\ risk_idx = 1
    /\ stage_duration = 0
    /\ stream = << >>
    /\ pos = 0
    /\ run_logs = << >>
    /\ calls = 0
    /\ run_start_pos = 0
    /\ invocation = 1
    /\ same_seed = FALSE
    /\ prev_results = << >>
    /\ prev_register = << >>
    /\ prev_run_logs = << >>

----------------------------------------------------------------------------
\* run_simulation

\* results = []; risk_register = []
RunSimulationStale ==
    /\ pc = "call"
    /\ pc' = "loop"
    /\ results' = << >>
    /\ risk_register' = risk_register
    /\ iter' = 0
    /\ run_logs' = << >>
    /\ calls' = 0
    /\ UNCHANGED <<runVars, rngVars, prevVars, inputVars>>

RunSimulation ==
    /\ pc = "call"
    /\ pc' = "loop"
    /\ results' = << >>
    /\ risk_register' = << >>
    /\ iter' = 0
    /\ run_logs' = << >>
    /\ calls' = 0
    /\ UNCHANGED <<runVars, rngVars, prevVars, inputVars>>

\* for _ in range(num_simulations)
LoopContinuesOffByOne(i, n) == i <= n
LoopContinues(i, n) == i < n

\* simulate_project entry: total_delay = 0; cumulative_duration = 0; risk_log = []
EnterSimulateProjectStale ==
    /\ total_delay' = total_delay
    /\ cumulative_duration' = 0
    /\ risk_log' = << >>
    /\ stage_pos' = 1

EnterSimulateProject ==
    /\ total_delay' = 0
    /\ cumulative_duration' = 0
    /\ risk_log' = << >>
    /\ stage_pos' = 1

\* One more iteration: call simulate_project(stages)
CallSimulateProject ==
    /\ pc = "loop"
    /\ LoopContinues(iter, num_simulations)
    /\ pc' = "stages"
    /\ EnterSimulateProject
    /\ calls' = calls + 1
    /\ run_start_pos' = pos
    /\ UNCHANGED <<results, risk_register, iter, run_logs, stage_num, risk_idx,
                   stage_duration, rngVars, prevVars, inputVars>>

\* risk_register.extend(risks)
ExtendPrepends(register, risks) == risks \o register
Extend(register, risks) == register \o risks

\* simulate_project returns; results.append(...); risk_register.extend(risks)
ReturnFromSimulateProject ==
    /\ pc = "stages"
    /\ stage_pos > Len(stages)
    /\ pc' = "loop"
    /\ results' = Append(results, [delay |-> total_delay,
                                   duration |-> cumulative_duration])
    /\ risk_register' = Extend(risk_register, risk_log)
    /\ run_logs' = Append(run_logs, risk_log)
    /\ iter' = iter + 1
    /\ UNCHANGED <<calls, runVars, rngVars, prevVars, inputVars>>

\* the for loop is exhausted: return the two collections
ReturnFromRunSimulation ==
    /\ pc = "loop"
    /\ ~LoopContinues(iter, num_simulations)
    /\ pc' = "done"
    /\ UNCHANGED <<batchVars, runVars, rngVars, prevVars, inputVars>>

----------------------------------------------------------------------------
\* simulate_project

\* for stage_num in stages: stage = stages[stage_num];
\* stage_duration = stage['baseline']
BeginStage ==
    /\ pc = "stages"
    /\ stage_pos <= Len(stages)
    /\ pc' = "risks"
    /\ stage_num' = stages[stage_pos].num
    /\ stage_duration' = StageAt(stages, stages[stage_pos].num).baseline
    /\ risk_idx' = 1
    /\ UNCHANGED <<batchVars, total_delay, cumulative_duration, risk_log,
                   stage_pos, run_start_pos, rngVars, prevVars, inputVars>>

FiredEvent(s, risk, delay) ==
    [stage |-> s, type |-> risk.type, severity |-> risk.severity,
     delay |-> delay, mitigation |-> risk.mitigation]

\* for risk in stage['risks']: one risk is evaluated
EvaluateRisk ==
    /\ pc = "risks"
    /\ risk_idx <= Len(StageAt(stages, stage_num).risks)
    /\ LET risk == StageAt(stages, stage_num).risks[risk_idx] IN
       \E r \in NextValues(1, RawValues) :
          LET fired == Fires(r, risk.probability) IN
          IF fired /\ SampleRaises(risk)
          THEN \* randint raises ValueError, which propagates to the caller
               /\ pc' = "error"
               /\ stream' = Consumed(<<r>>, 1)
               /\ pos' = pos + 1
               /\ UNCHANGED <<stage_duration, total_delay, risk_log, risk_idx>>
          ELSE \* delay is looked at only when the risk fired
               \E delay \in (IF fired THEN NextValues(2, SampleDelay(risk))
                                      ELSE {0}) :
                  /\ pc' = "risks"
                  /\ stream' = Consumed(<<r, delay>>, DrawCount(fired))
                  /\ pos' = pos + DrawCount(fired)
                  /\ risk_idx' = risk_idx + 1
                  /\ IF fired
                     THEN /\ stage_duration' = stage_duration + delay
                          /\ total_delay' = total_delay + delay
                          /\ risk_log' = Append(risk_log,
                                                FiredEvent(stage_num, risk, delay))
                     ELSE UNCHANGED <<stage_duration, total_delay, risk_log>>
    /\ UNCHANGED <<batchVars, cumulative_duration, stage_num, stage_pos,
                   run_start_pos, prevVars, inputVars>>

\* cumulative_duration += stage_duration
EndStageBaselineOnly ==
    /\ pc = "risks"
    /\ risk_idx > Len(StageAt(stages, stage_num).risks)
    /\ pc' = "stages"
    /\ cumulative_duration' =
          cumulative_duration + StageAt(stages, stage_num).baseline
    /\ stage_pos' = stage_pos + 1
    /\ UNCHANGED <<batchVars, total_delay, risk_log, stage_num, risk_idx,
                   stage_duration, run_start_pos, rngVars, prevVars, inputVars>>

EndStage ==
    /\ pc = "risks"
    /\ risk_idx > Len(StageAt(stages, stage_num).risks)
    /\ pc' = "stages"
    /\ cumulative_duration' = cumulative_duration + stage_duration
    /\ stage_pos' = stage_pos + 1
    /\ UNCHANGED <<batchVars, total_delay, risk_log, stage_num, risk_idx,
                   stage_duration, run_start_pos, rngVars, prevVars, inputVars>>

----------------------------------------------------------------------------
\* A second call of run_simulation with the same arguments

KeepOutputs ==
    /\ pc = "done"
    /\ invocation = 1
    /\ invocation' = 2
    /\ pc' = "call"
    /\ prev_results' = results
    /\ prev_register' = risk_register
    /\ prev_run_logs' = run_logs
    /\ pos' = 0
    /\ UNCHANGED <<batchVars, runVars, inputVars>>

\* the generator is seeded as before the first call: the stream replays
RepeatSameSeed ==
    /\ KeepOutputs
    /\ same_seed' = TRUE
    /\ stream' = stream

\* the generator is seeded differently: the stream is undecided again
RepeatNewSeed ==
    /\ KeepOutputs
    /\ same_seed' = FALSE
    /\ stream' = << >>

----------------------------------------------------------------------------
Next ==
    \/ RunSimulation
    \/ CallSimulateProject
    \/ BeginStage
    \/ EvaluateRisk
    \/ EndStage
    \/ ReturnFromSimulateProject
    \/ ReturnFromRunSimulation

Spec == Init /\ [][Next]_vars

NextSameSeed == Next \/ RepeatSameSeed

SpecSameSeed == Init /\ [][NextSameSeed]_vars

NextRepeat == Next \/ RepeatSameSeed \/ RepeatNewSeed

SpecRepeat == Init /\ [][NextRepeat]_vars

TypeOK ==
    /\ pc \in {"call", "loop", "stages", "risks", "done", "error"}
    /\ iter \in 0..MaxTrials
    /\ (invocation = 1 \/ same_seed) => pos <= Len(stream)

----------------------------------------------------------------------------
\* Properties

AllLogs == <<risk_log, risk_register>> \o run_logs

\* The risk definition an event came from: the risk of the event's stage
\* that has the event's type (types are unique within a stage).
FromDefinition(e, r) ==
    /\ r.type = e.type
    /\ r.severity = e.severity
    /\ r.mitigation = e.mitigation

\* Sum over the first s stages of baseline + the delays logged under the
\* stage's key.
RECURSIVE DurationUpTo(_, _)
DurationUpTo(log, s) ==
    IF s = 0 THEN 0
    ELSE stages[s].baseline + SumDelays(EventsOfStage(log, stages[s].num))
         + DurationUpTo(log, s - 1)

\* Number of risk definitions of the first s stages.
RECURSIVE RisksUpTo(_)
RisksUpTo(s) ==
    IF s = 0 THEN 0 ELSE Len(stages[s].risks) + RisksUpTo(s - 1)

AllProbabilitiesZero ==
    \A s \in 1..Len(stages) :
        \A k \in 1..Len(stages[s].risks) : stages[s].risks[k].probability = 0

\* C1: a batch with trial_count >= 1 that returns has called the single-run
\* simulator exactly trial_count times and returns exactly trial_count
\* summaries, the k-th being the summary of the k-th run.
C1_OneSummaryPerRun ==
    (pc = "done" /\ num_simulations >= 1) =>
        /\ calls = num_simulations
        /\ Len(results) = num_simulations
        /\ Len(run_logs) = num_simulations
        /\ \A k \in 1..Len(results) :
              results[k] = [delay |-> SumDelays(run_logs[k]),
                            duration |-> SumBaselines(stages)
                                         + SumDelays(run_logs[k])]

C1_Witness ==
    /\ pc = "done"
    /\ num_simulations = MaxTrials
    /\ ValidConfiguration(stages)
    /\ Len(results) = MaxTrials
    /\ results[1] # results[2]

\* C2: every run's total_duration is the sum over the stages of the baseline
\* plus the delays of the events that fired in that stage; a stage without
\* risk definitions contributes its baseline and no event.
C2_DurationIsSumOverStages ==
    /\ \A k \in 1..Len(results) :
          results[k].duration = DurationUpTo(run_logs[k], Len(stages))
    /\ pc = "stages" =>
          cumulative_duration = DurationUpTo(risk_log, stage_pos - 1)
    /\ \A s \in 1..Len(stages) :
          stages[s].risks = << >> =>
             \A i \in 1..Len(AllLogs) :
                 EventsOfStage(AllLogs[i], stages[s].num) = << >>

C2_Witness ==
    /\ stages = ConfigPlanning
    /\ Len(results) >= 1
    /\ results[1].duration > SumBaselines(stages)

\* C3: every fired event, in a run's list and in the register, has a
\* severity among low, medium, high, critical and a delay within
\* [impact_min, impact_max] of the risk definition it came from.
C3_EventsWithinRange ==
    \A i \in 1..Len(AllLogs) :
        \A j \in 1..Len(AllLogs[i]) :
            LET e == AllLogs[i][j] IN
            /\ e.severity \in Severities
            /\ e.stage \in Keys(stages)
            /\ \E k \in 1..Len(StageAt(stages, e.stage).risks) :
                  FromDefinition(e, StageAt(stages, e.stage).risks[k])
            /\ \A k \in 1..Len(StageAt(stages, e.stage).risks) :
                  LET r == StageAt(stages, e.stage).risks[k] IN
                  FromDefinition(e, r) =>
                      r.impact[1] <= e.delay /\ e.delay <= r.impact[2]

\* both endpoints of impact (1,4) are drawn, under stage key 5
C3_Witness ==
    /\ stages = ConfigInstallation
    /\ Len(risk_register) = 2
    /\ risk_register[1] = FiredEvent(5, stages[1].risks[1], 1)
    /\ risk_register[2] = FiredEvent(5, stages[1].risks[1], 4)

\* a risk with impact (0,0) fires and is logged with delay 0
C3_WitnessZeroDelay ==
    /\ stages = ConfigZeroImpact
    /\ Len(risk_register) >= 1
    /\ risk_register[1].delay = 0

\* C4: a second call with the same configuration, the same trial count and
\* the generator seeded as for the first call returns the same summaries and
\* the same register, element for element.
C4_SameSeedSameOutputs ==
    (invocation = 2 /\ same_seed /\ pc = "done") =>
        /\ results = prev_results
        /\ risk_register = prev_register

C4_Witness ==
    /\ invocation = 2
    /\ same_seed
    /\ pc = "done"
    /\ num_simulations = MaxTrials
    /\ Len(risk_register) >= 2
    /\ results[1] # results[2]

\* C5: a call with trial_count < 1 is rejected: it never returns output
\* collections.
C5_InvalidTrialCountRejected ==
    num_simulations < 1 => pc # "done"

\* C6: a configuration with impact_min > impact_max never reaches the
\* single-run simulator, and no error is raised in the middle of a simulation.
C6_ReversedImpactRejected ==
    ~(/\ ~ValidConfiguration(stages)
      /\ calls >= 1
      /\ pc = "error")

\* C7 (as stated): the register tells the runs apart, so two batches whose
\* runs fired different events never return the same register.
C7_RegisterIdentifiesRuns ==
    (invocation = 2 /\ pc = "done" /\ prev_run_logs # run_logs) =>
        prev_register # risk_register

\* C7 (amended): the register is the concatenation, in run order, of the
\* events each completed run returned, and every record names its stage and
\* repeats the type, severity and mitigation of a risk of that stage; it
\* carries no run.
C7_RegisterIsConcatenation ==
    /\ risk_register = Flatten(run_logs)
    /\ \A j \in 1..Len(risk_register) :
          LET e == risk_register[j] IN
          /\ DOMAIN e = {"stage", "type", "severity", "delay", "mitigation"}
          /\ e.stage \in Keys(stages)
          /\ \E k \in 1..Len(StageAt(stages, e.stage).risks) :
                FromDefinition(e, StageAt(stages, e.stage).risks[k])

C7_Witness ==
    /\ pc = "done"
    /\ Len(run_logs) = 2
    /\ run_logs[1] # << >>
    /\ run_logs[2] # << >>
    /\ run_logs[1] # run_logs[2]
    /\ risk_register = run_logs[1] \o run_logs[2]

\* C8: when every risk has probability 0, no risk fires whatever is drawn:
\* the register stays empty, every total_delay is 0 and every total_duration
\* is the sum of the baselines.
C8_ZeroProbabilityNeverFires ==
    AllProbabilitiesZero =>
        /\ risk_register = << >>
        /\ risk_log = << >>
        /\ total_delay = 0
        /\ \A k \in 1..Len(results) :
              results[k] = [delay |-> 0, duration |-> SumBaselines(stages)]

\* a complete batch in which a draw of exactly 0 was compared with probability 0
C8_Witness ==
    /\ AllProbabilitiesZero
    /\ pc = "done"
    /\ Len(results) = MaxTrials
    /\ \E j \in 1..Len(stream) : stream[j] = 0

\* C9: inside a run the generator has advanced by one draw per risk
\* definition evaluated so far plus one per event fired so far, so a
\* finished run has consumed (risk definitions + fired events) draws; events
\* are logged in the order the stages are iterated.
C9_DrawsPerRun ==
    /\ pc \in {"stages", "risks"} =>
          pos - run_start_pos =
              RisksUpTo(stage_pos - 1)
              + (IF pc = "risks" THEN risk_idx - 1 ELSE 0)
              + Len(risk_log)
    /\ (pc = "stages" /\ stage_pos > Len(stages)) =>
          pos - run_start_pos = NumRisks(stages) + Len(risk_log)
    /\ pc \in {"loop", "done"} =>
          pos = iter * NumRisks(stages) + Len(risk_register)
    /\ \A i, j \in 1..Len(risk_log) :
          i < j => PositionOf(stages, risk_log[i].stage)
                      <= PositionOf(stages, risk_log[j].stage)

\* a finished run in which one risk fired and another did not
C9_Witness ==
    /\ pc = "stages"
    /\ stage_pos > Len(stages)
    /\ NumRisks(stages) = 2
    /\ Len(risk_log) = 1
    /\ pos - run_start_pos = 3

\* C10: after n completed runs there are n summaries, their total_delay
\* values add up to the delays in the register, and each summary's
\* total_delay is the sum of the delays of the events of its own run.
C10_DelaysMatchRegister ==
    /\ Len(results) = iter
    /\ SumTotalDelay(results) = SumDelays(risk_register)
    /\ \A k \in 1..Len(results) :
          results[k].delay = SumDelays(run_logs[k])

C10_Witness ==
    /\ iter = 2
    /\ results[1].delay > 0
    /\ results[2].delay > 0
    /\ results[1].delay # results[2].delay
====
